---- MODULE Spec2Model ----
(***************************************************************************)
(* Model of chatbot/document_loader/text_splitter.py: TextSplitter and     *)
(* RecursiveCharacterTextSplitter.  A text is a sequence of one-character   *)
(* strings, a separator is a text (literal separators, is_separator_regex   *)
(* left at its default False), length_function is left at its default len.  *)
(* One behaviour is: construct a splitter, call create_documents([text]),   *)
(* which runs split_text (the recursion of _split_text on an explicit call  *)
(* stack, _merge_splits one loop iteration per step) and then wraps the     *)
(* chunks into documents.                                                   *)
(***************************************************************************)
EXTENDS Integers, Sequences, FiniteSets, TLC

\* pc        where the program is: "new" (no splitter yet), "failed" (the
\*           constructor raised ValueError), "ready", "split" (in the loop of
\*           _split_text), "for" and "while" (in the loops of _merge_splits),
\*           "raised" (IndexError), "docs" (in the loop of create_documents
\*           over the chunks), "done"
\* splitter  the splitter object: <<>> or <<its fields>>
\* text      the text create_documents is called with
\* stack     the calls of _split_text in progress, the outermost first
\* mg        the locals of the call of _merge_splits in progress
\* warnings  the totals logger.warning was called with
\* chunks    what split_text returned
\* documents, index   the locals of create_documents
\* carried   for every chunk emitted so far, in order, the number of its leading
\*           characters that come from fragments kept from the chunk before it
VARIABLES pc, splitter, text, stack, mg, warnings, chunks, documents, index, carried

vars == <<pc, splitter, text, stack, mg, warnings, chunks, documents, index, carried>>

(* ------------------------------ bounds --------------------------------- *)
\* longest input text
MaxLen == 4
\* largest chunk_size handed to the constructor
MaxChunk == 3

E == <<>>
SP == <<" ">>
B == <<"b">>
AA == <<"a", "a">>

Alphabet == {"a", "b", " "}
\* separator priority lists handed to the constructor
SeparatorLists == { <<E>>, <<SP, E>>, <<B, SP, E>>, <<AA, E>>, <<B>> }

RECURSIVE TextsOfLen(_)
TextsOfLen(n) ==
    IF n = 0 THEN {<<>>}
    ELSE {Append(t, c) : t \in TextsOfLen(n - 1), c \in Alphabet}

Texts == UNION {TextsOfLen(n) : n \in 0..MaxLen}

(* --------------------------- string helpers ---------------------------- *)
\* str.isspace for one character
IsSpace(c) == c \in {" ", "\n", "\t"}

\* p occurs in t at 1-based position i
OccursAt(t, p, i) ==
    /\ i >= 1
    /\ i + Len(p) - 1 <= Len(t)
    /\ \A j \in 1..Len(p) : t[i + j - 1] = p[j]

\* 1-based position of the leftmost occurrence of p in t at or after from, 0 if none
FirstOcc(t, p, from) ==
    LET hits == {i \in from..(Len(t) - Len(p) + 1) : OccursAt(t, p, i)}
    IN IF hits = {} THEN 0 ELSE CHOOSE i \in hits : \A j \in hits : i <= j

\* re.search(re.escape(sep), text) is not None
Search(sep, t) == FirstOcc(t, sep, 1) # 0

\* str.strip()
Strip(t) ==
    LET keep == {i \in 1..Len(t) : ~IsSpace(t[i])}
    IN IF keep = {} THEN <<>>
       ELSE LET lo == CHOOSE i \in keep : \A j \in keep : i <= j
                hi == CHOOSE i \in keep : \A j \in keep : i >= j
            IN SubSeq(t, lo, hi)

\* separator.join(docs)
RECURSIVE Join(_, _)
Join(docs, separator) ==
    IF docs = <<>> THEN <<>>
    ELSE IF Len(docs) = 1 THEN docs[1]
    ELSE docs[1] \o separator \o Join(Tail(docs), separator)

\* str.find(sub, start): 0-based offset of the first occurrence at or after start, -1 if none
Find(t, sub, start) == FirstOcc(t, sub, start + 1) - 1

\* [s for s in splits if s != ""]
RECURSIVE NonEmpty(_)
NonEmpty(splits) ==
    IF splits = <<>> THEN <<>>
    ELSE IF splits[1] = <<>> THEN NonEmpty(Tail(splits))
    ELSE <<splits[1]>> \o NonEmpty(Tail(splits))

(* ------------------------- _split_text_with_regex ---------------------- *)
\* re.split(separator, text) for a non-empty literal separator
RECURSIVE ReSplit(_, _)
ReSplit(t, sep) ==
    LET i == FirstOcc(t, sep, 1)
    IN IF i = 0 THEN <<t>>
       ELSE <<SubSeq(t, 1, i - 1)>> \o ReSplit(SubSeq(t, i + Len(sep), Len(t)), sep)

\* re.split(f"({separator})", text): the pieces with the captured separators between them
RECURSIVE ReSplitCapture(_, _)
ReSplitCapture(t, sep) ==
    LET i == FirstOcc(t, sep, 1)
    IN IF i = 0 THEN <<t>>
       ELSE <<SubSeq(t, 1, i - 1), sep>>
            \o ReSplitCapture(SubSeq(t, i + Len(sep), Len(t)), sep)

\* [_splits[i] + _splits[i + 1] for i in range(1, len(_splits), 2)]  (0-based i)
PairUp(_splits) ==
    [k \in 1..(Len(_splits) \div 2) |-> _splits[2 * k] \o _splits[2 * k + 1]]

\* the separator glued to the piece before it instead of the piece after it
KeepSeparatorSplitsTrailing(_splits) ==
    [k \in 1..(Len(_splits) \div 2) |-> _splits[2 * k - 1] \o _splits[2 * k]]
        \o <<_splits[Len(_splits)]>>

\* the piece before the first separator forgotten
KeepSeparatorSplitsDropsHead(_splits) == PairUp(_splits)

KeepSeparatorSplits(_splits) ==
    LET paired == PairUp(_splits)
        tailed == IF Len(_splits) % 2 = 0
                  THEN paired \o <<_splits[Len(_splits)]>>
                  ELSE paired
    IN <<_splits[1]>> \o tailed

SplitTextWithRegex(t, separator, keep_separator) ==
    LET splits == IF separator # <<>>
                  THEN IF keep_separator
                       THEN KeepSeparatorSplits(ReSplitCapture(t, separator))
                       ELSE ReSplit(t, separator)
                  ELSE [k \in 1..Len(t) |-> <<t[k]>>]
    IN NonEmpty(splits)

(* ------------------------------ _join_docs ----------------------------- *)
\* a _join_docs that ignores strip_whitespace
JoinDocsNeverStrips(docs, separator, strip_whitespace) ==
    IF Join(docs, separator) = <<>> THEN <<>> ELSE <<Join(docs, separator)>>

\* _join_docs: the joined text, or None when it is empty.  The result is a
\* sequence of zero (None) or one text, so that docs \o JoinDocs(..) is
\* "if doc is not None: docs.append(doc)".
JoinDocs(docs, separator, strip_whitespace) ==
    LET joined == Join(docs, separator)
        t == IF strip_whitespace THEN Strip(joined) ELSE joined
    IN IF t = <<>> THEN <<>> ELSE <<t>>

(* ------------------- _split_text: choice of the separator -------------- *)
\* the index at which the for loop of _split_text breaks, 0 when it runs out
SelectIndex(t, separators) ==
    LET hits == {i \in 1..Len(separators) :
                    separators[i] = <<>> \/ Search(separators[i], t)}
    IN IF hits = {} THEN 0 ELSE CHOOSE i \in hits : \A j \in hits : i <= j

SelectSeparator(t, separators) ==
    LET i == SelectIndex(t, separators)
    IN IF i = 0 THEN separators[Len(separators)] ELSE separators[i]

\* a recursion that would keep the separator just used in the remaining list
NewSeparatorsKeepsCurrent(t, separators) ==
    LET i == SelectIndex(t, separators)
    IN IF i = 0 \/ separators[i] = <<>> THEN <<>>
       ELSE SubSeq(separators, i, Len(separators))

\* new_separators = separators[i + 1:], [] when nothing is left to try
NewSeparators(t, separators) ==
    LET i == SelectIndex(t, separators)
    IN IF i = 0 \/ separators[i] = <<>> THEN <<>>
       ELSE SubSeq(separators, i + 1, Len(separators))

(* ------------------------------ the state ------------------------------ *)
\* the splitter object, once constructed
Self == splitter[1]

\* the activation record of one call of _split_text, at the head of its loop
\* over splits (i is the 1-based position of the next s)
Frame(t, separators) ==
    [text |-> t,
     separators |-> separators,
     separator |-> SelectSeparator(t, separators),
     new_separators |-> NewSeparators(t, separators),
     splits |-> SplitTextWithRegex(t, SelectSeparator(t, separators), Self.keep_separator),
     i |-> 1,
     good_splits |-> <<>>,
     final_chunks |-> <<>>]

Top == stack[Len(stack)]

\* the locals of _merge_splits; k is the 1-based position of the next d,
\* popped counts the iterations of the while loop since the last flush and
\* kept is the number of fragments the last run of the while loop left in
\* current_doc
MergeIdle ==
    [splits |-> <<>>, separator |-> <<>>, k |-> 0, current_doc |-> <<>>,
     total |-> 0, docs |-> <<>>, popped |-> 0, kept |-> 0]

MergeEnter(splits, separator) ==
    [splits |-> splits, separator |-> separator, k |-> 1, current_doc |-> <<>>,
     total |-> 0, docs |-> <<>>, popped |-> 0, kept |-> 0]

Init ==
    /\ pc = "new"
    /\ splitter = <<>>
    /\ text = <<>>
    /\ stack = <<>>
    /\ mg = MergeIdle
    /\ warnings = <<>>
    /\ chunks = <<>>
    /\ documents = <<>>
    /\ index = -1
    /\ carried = <<>>

(* ------------------------- TextSplitter.__init__ ----------------------- *)
\* a stricter test that would also reject chunk_overlap = chunk_size
OverlapTooLargeOrEqual(chunk_size, chunk_overlap) == chunk_overlap >= chunk_size

\* the test guarding the ValueError
OverlapTooLarge(chunk_size, chunk_overlap) == chunk_overlap > chunk_size

Construct(chunk_size, chunk_overlap, keep_separator, add_start_index, strip_whitespace, separators) ==
    /\ pc = "new"
    /\ IF OverlapTooLarge(chunk_size, chunk_overlap)
       THEN /\ pc' = "failed"
            /\ splitter' = splitter
       ELSE /\ pc' = "ready"
            /\ splitter' = <<[chunk_size |-> chunk_size,
                              chunk_overlap |-> chunk_overlap,
                              keep_separator |-> keep_separator,
                              add_start_index |-> add_start_index,
                              strip_whitespace |-> strip_whitespace,
                              separators |-> separators]>>
    /\ UNCHANGED <<text, stack, mg, warnings, chunks, documents, index, carried>>

(* --------------------------- create_documents -------------------------- *)
\* create_documents([t]) up to the call of split_text(t), which enters
\* _split_text(t, self._separators)
CreateDocuments(t) ==
    /\ pc = "ready"
    /\ text' = t
    /\ index' = -1
    /\ documents' = <<>>
    /\ stack' = <<Frame(t, Self.separators)>>
    /\ pc' = "split"
    /\ carried' = <<>>
    /\ UNCHANGED <<splitter, mg, warnings, chunks>>

(* ------------------------------ _split_text ---------------------------- *)
\* the s the loop over splits is at
CurrentSplit == Top.splits[Top.i]

InLoop == pc = "split" /\ Top.i <= Len(Top.splits)

\* self._length_function(s) < self._chunk_size
IsGood(s) == Len(s) < Self.chunk_size

\* the separator _merge_splits is called with
MergeSeparator == IF Self.keep_separator THEN <<>> ELSE Top.separator

\* _good_splits.append(s)
SplitGood ==
    /\ InLoop
    /\ IsGood(CurrentSplit)
    /\ stack' = [stack EXCEPT ![Len(stack)].good_splits = Append(@, CurrentSplit),
                              ![Len(stack)].i = @ + 1]
    /\ UNCHANGED <<pc, splitter, text, mg, warnings, chunks, documents, index, carried>>

\* the call self._merge_splits(_good_splits, _separator), inside the loop at an
\* s that is not good and after the loop
SplitMerge ==
    /\ pc = "split"
    /\ Top.good_splits # <<>>
    /\ \/ Top.i > Len(Top.splits)
       \/ Top.i <= Len(Top.splits) /\ ~IsGood(CurrentSplit)
    /\ mg' = MergeEnter(Top.good_splits, MergeSeparator)
    /\ pc' = "for"
    /\ UNCHANGED <<splitter, text, stack, warnings, chunks, documents, index, carried>>

\* final_chunks.append(s): no separator is left to split s with
SplitAtomic ==
    /\ InLoop
    /\ ~IsGood(CurrentSplit)
    /\ Top.good_splits = <<>>
    /\ Top.new_separators = <<>>
    /\ stack' = [stack EXCEPT ![Len(stack)].final_chunks = Append(@, CurrentSplit),
                              ![Len(stack)].i = @ + 1]
    /\ carried' = Append(carried, 0)
    /\ UNCHANGED <<pc, splitter, text, mg, warnings, chunks, documents, index>>

\* the recursive call self._split_text(s, new_separators)
SplitRecurse ==
    /\ InLoop
    /\ ~IsGood(CurrentSplit)
    /\ Top.good_splits = <<>>
    /\ Top.new_separators # <<>>
    /\ stack' = Append(stack, Frame(CurrentSplit, Top.new_separators))
    /\ UNCHANGED <<pc, splitter, text, mg, warnings, chunks, documents, index, carried>>

\* return final_chunks: to the caller's final_chunks.extend(other_info), or
\* out of split_text to create_documents
SplitReturn ==
    /\ pc = "split"
    /\ Top.i > Len(Top.splits)
    /\ Top.good_splits = <<>>
    /\ IF Len(stack) = 1
       THEN /\ chunks' = Top.final_chunks
            /\ stack' = <<>>
            /\ pc' = "docs"
       ELSE /\ stack' = [SubSeq(stack, 1, Len(stack) - 1)
                            EXCEPT ![Len(stack) - 1].final_chunks = @ \o Top.final_chunks,
                                   ![Len(stack) - 1].i = @ + 1]
            /\ UNCHANGED <<chunks, pc>>
    /\ UNCHANGED <<splitter, text, mg, warnings, documents, index, carried>>

(* ----------------------------- _merge_splits --------------------------- *)
SeparatorLen == Len(mg.separator)

\* d and _len of the iteration the for loop is at
D == mg.splits[mg.k]

DLen == Len(D)

\* an overflow test that forgets the joining separator
WouldOverflowNoSeparator ==
    mg.total + DLen > Self.chunk_size

\* total + _len + (separator_len if len(current_doc) > 0 else 0) > self._chunk_size
WouldOverflow ==
    mg.total + DLen + (IF Len(mg.current_doc) > 0 THEN SeparatorLen ELSE 0)
        > Self.chunk_size

\* a while condition with its first disjunct only
KeepPoppingOverlapOnly == mg.total > Self.chunk_overlap

\* the condition of the while loop
KeepPopping ==
    \/ mg.total > Self.chunk_overlap
    \/ WouldOverflow /\ mg.total > 0

\* what one iteration of the while loop takes off total
PoppedLen ==
    Len(mg.current_doc[1]) + (IF Len(mg.current_doc) > 1 THEN SeparatorLen ELSE 0)

\* current_doc.append(d); total += _len + (separator_len if len(current_doc) > 1 else 0)
AppendD(m) ==
    [m EXCEPT !.current_doc = Append(@, D),
              !.total = @ + DLen + (IF Len(m.current_doc) + 1 > 1 THEN SeparatorLen ELSE 0),
              !.k = @ + 1]

\* the number of leading characters of the chunk joined from current_doc that
\* belong to the fragments the while loop kept from the previous chunk
CarriedChars ==
    LET joined == Join(mg.current_doc, mg.separator)
        raw == IF mg.kept = 0 THEN 0
               ELSE IF mg.kept >= Len(mg.current_doc) THEN Len(joined)
               ELSE Len(Join(SubSeq(mg.current_doc, 1, mg.kept), mg.separator)) + SeparatorLen
        lead == IF Self.strip_whitespace
                THEN IF Strip(joined) = <<>> THEN Len(joined)
                     ELSE FirstOcc(joined, Strip(joined), 1) - 1
                ELSE 0
        left == IF raw > lead THEN raw - lead ELSE 0
        out == JoinDocs(mg.current_doc, mg.separator, Self.strip_whitespace)
    IN IF out = <<>> THEN <<>>
       ELSE IF left > Len(out[1]) THEN <<Len(out[1])>> ELSE <<left>>

\* one iteration of the for loop up to the while loop: the overflow test, the
\* warning, the flush of current_doc; without overflow, or with nothing
\* buffered, the iteration runs to its end
MergeNext ==
    /\ pc = "for"
    /\ mg.k <= Len(mg.splits)
    /\ IF WouldOverflow
       THEN /\ warnings' = IF mg.total > Self.chunk_size
                           THEN Append(warnings, mg.total) ELSE warnings
            /\ IF Len(mg.current_doc) > 0
               THEN /\ mg' = [mg EXCEPT !.docs = @ \o JoinDocs(mg.current_doc, mg.separator,
                                                               Self.strip_whitespace),
                                        !.popped = 0]
                    /\ carried' = carried \o CarriedChars
                    /\ pc' = "while"
               ELSE /\ mg' = AppendD(mg)
                    /\ UNCHANGED <<pc, carried>>
       ELSE /\ mg' = AppendD(mg)
            /\ UNCHANGED <<pc, warnings, carried>>
    /\ UNCHANGED <<splitter, text, stack, chunks, documents, index>>

\* one iteration of the while loop; current_doc[0] of an empty list raises IndexError
MergePop ==
    /\ pc = "while"
    /\ KeepPopping
    /\ IF mg.current_doc = <<>>
       THEN /\ pc' = "raised"
            /\ UNCHANGED mg
       ELSE /\ mg' = [mg EXCEPT !.total = @ - PoppedLen,
                                !.current_doc = Tail(@),
                                !.popped = @ + 1]
            /\ UNCHANGED pc
    /\ UNCHANGED <<splitter, text, stack, warnings, chunks, documents, index, carried>>

\* the while loop ends and the iteration of the for loop with it
MergeAppend ==
    /\ pc = "while"
    /\ ~KeepPopping
    /\ mg' = AppendD([mg EXCEPT !.kept = Len(mg.current_doc)])
    /\ pc' = "for"
    /\ UNCHANGED <<splitter, text, stack, warnings, chunks, documents, index, carried>>

\* after the for loop: the last flush, return docs, and the caller's
\* final_chunks.extend(merged_text); _good_splits = []
MergeReturn ==
    /\ pc = "for"
    /\ mg.k > Len(mg.splits)
    /\ LET docs == mg.docs \o JoinDocs(mg.current_doc, mg.separator, Self.strip_whitespace)
       IN stack' = [stack EXCEPT ![Len(stack)].final_chunks = @ \o docs,
                                 ![Len(stack)].good_splits = <<>>]
    /\ carried' = carried \o CarriedChars
    /\ mg' = MergeIdle
    /\ pc' = "split"
    /\ UNCHANGED <<splitter, text, warnings, chunks, documents, index>>

(* ---------------------- create_documents: the chunks ------------------- *)
\* text.find(chunk, index + 1)
FindFromIndex(chunk) == Find(text, chunk, index + 1)

\* one iteration of the loop over the chunks
NewDocument ==
    /\ pc = "docs"
    /\ Len(documents) < Len(chunks)
    /\ LET chunk == chunks[Len(documents) + 1]
       IN IF Self.add_start_index
          THEN /\ index' = FindFromIndex(chunk)
               /\ documents' = Append(documents,
                                  [page_content |-> chunk,
                                   metadata |-> [key \in {"start_index"} |-> index']])
          ELSE /\ documents' = Append(documents,
                                  [page_content |-> chunk,
                                   metadata |-> [key \in {} |-> 0]])
               /\ UNCHANGED index
    /\ UNCHANGED <<pc, splitter, text, stack, mg, warnings, chunks, carried>>

\* return documents
ReturnDocuments ==
    /\ pc = "docs"
    /\ Len(documents) = Len(chunks)
    /\ pc' = "done"
    /\ UNCHANGED <<splitter, text, stack, mg, warnings, chunks, documents, index, carried>>

(* --------------------------- the specification ------------------------- *)
\* the arguments the constructor is called with
ChunkSizes == 0..MaxChunk

ChunkOverlaps == (-1)..(MaxChunk + 1)

\* the steps of create_documents once it is called
Run ==
    \/ SplitGood
    \/ SplitMerge
    \/ SplitAtomic
    \/ SplitRecurse
    \/ SplitReturn
    \/ MergeNext
    \/ MergePop
    \/ MergeAppend
    \/ MergeReturn
    \/ NewDocument
    \/ ReturnDocuments

Next ==
    \/ /\ pc = "new"
       /\ \E chunk_size \in ChunkSizes, chunk_overlap \in ChunkOverlaps,
             keep_separator \in BOOLEAN, add_start_index \in BOOLEAN,
             strip_whitespace \in BOOLEAN, separators \in SeparatorLists :
             Construct(chunk_size, chunk_overlap, keep_separator, add_start_index,
                       strip_whitespace, separators)
    \/ /\ pc = "ready"
       /\ \E t \in Texts : CreateDocuments(t)
    \/ Run

Spec == Init /\ [][Next]_vars

\* the same program with add_start_index always set, which no step before the
\* documents are built reads
NextWithStartIndex ==
    \/ /\ pc = "new"
       /\ \E chunk_size \in ChunkSizes, chunk_overlap \in ChunkOverlaps,
             keep_separator \in BOOLEAN, strip_whitespace \in BOOLEAN,
             separators \in SeparatorLists :
             Construct(chunk_size, chunk_overlap, keep_separator, TRUE,
                       strip_whitespace, separators)
    \/ /\ pc = "ready"
       /\ \E t \in Texts : CreateDocuments(t)
    \/ Run

Finished == pc \in {"failed", "raised", "done"}

\* The program is sequential and keeps running until it returns or raises:
\* a behaviour does not stop in a state that is not Finished.  Every state
\* that is not Finished has a step, and every step changes vars, so this is
\* WF_vars(NextWithStartIndex), written without ENABLED.
FairSpec ==
    /\ Init
    /\ [][NextWithStartIndex]_vars
    /\ ([]<>Finished \/ []<><<NextWithStartIndex>>_vars)

(* ------------------------------- claims -------------------------------- *)
Constructed == splitter # <<>>

Returned == pc \in {"docs", "done"}

\* a configuration within the documented ranges: chunk_size > 0, chunk_overlap >= 0
InRange == Constructed /\ Self.chunk_size >= 1 /\ Self.chunk_overlap >= 0

Last(seq) == seq[Len(seq)]

\* what split_text is expected to keep of a text
Stripped(t) == IF Self.strip_whitespace THEN Strip(t) ELSE t

\* C1: the constructor raises exactly when chunk_overlap > chunk_size, and
\* then no splitter exists; with chunk_overlap <= chunk_size, equality
\* included, it returns a splitter holding the arguments.
C1_ConstructorCheck ==
    [][pc = "new" =>
       \A chunk_size \in ChunkSizes, chunk_overlap \in ChunkOverlaps,
          keep_separator \in BOOLEAN, add_start_index \in BOOLEAN,
          strip_whitespace \in BOOLEAN, separators \in SeparatorLists :
          Construct(chunk_size, chunk_overlap, keep_separator, add_start_index,
                    strip_whitespace, separators)
          => /\ chunk_overlap > chunk_size => pc' = "failed" /\ splitter' = <<>>
             /\ chunk_overlap <= chunk_size
                   => /\ pc' = "ready"
                      /\ Len(splitter') = 1
                      /\ splitter'[1].chunk_size = chunk_size
                      /\ splitter'[1].chunk_overlap = chunk_overlap]_vars

C1_Witness == pc = "failed" /\ splitter = <<>>

\* the configurations C2 is about
C2_Config ==
    /\ Constructed
    /\ Self.chunk_size >= 1
    /\ Self.chunk_overlap \in 0..Self.chunk_size
    /\ Last(Self.separators) = <<>>

\* C2: with chunk_size >= 1, chunk_overlap in 0..chunk_size and a separator
\* list ending in the empty string, no chunk is longer than chunk_size: not
\* the chunks split_text returns, not those a call of _split_text or of
\* _merge_splits has collected so far, and not the window _merge_splits holds.
C2_ChunksBounded ==
    C2_Config =>
        /\ \A i \in 1..Len(chunks) : Len(chunks[i]) <= Self.chunk_size
        /\ \A j \in 1..Len(stack) : \A i \in 1..Len(stack[j].final_chunks) :
              Len(stack[j].final_chunks[i]) <= Self.chunk_size
        /\ \A i \in 1..Len(mg.docs) : Len(mg.docs[i]) <= Self.chunk_size
        /\ Len(Join(mg.current_doc, mg.separator)) <= Self.chunk_size

C2_Witness ==
    /\ pc = "done"
    /\ C2_Config
    /\ Self.chunk_size >= 2
    /\ Self.chunk_overlap >= 1
    /\ ~Self.keep_separator
    /\ Self.separators = <<SP, E>>
    /\ Len(text) > Self.chunk_size
    /\ \E i \in 1..Len(chunks) :
          /\ Len(chunks[i]) = Self.chunk_size
          /\ chunks[i][2] = " "

\* the pieces between the occurrences of the separator _split_text selects
\* for the whole text
TextPieces == ReSplit(text, SelectSeparator(text, Self.separators))

\* no piece is empty: the selected separator occurs neither at the start of
\* the text, nor at its end, nor twice in a row
NoEmptyPiece ==
    \/ SelectSeparator(text, Self.separators) = <<>>
    \/ \A i \in 1..Len(TextPieces) : TextPieces[i] # <<>>

\* C3 as stated: a text shorter than chunk_size comes back as exactly one
\* chunk, the text itself (stripped when strip_whitespace is set), whatever
\* keep_separator, strip_whitespace and the separator list are.
C3_ShortInputOneChunk ==
    (Returned /\ InRange /\ Len(text) < Self.chunk_size) => chunks = <<Stripped(text)>>

\* C3 as amended: a text shorter than chunk_size gives at most one chunk; with
\* keep_separator set, or with no empty piece between the occurrences of the
\* selected separator, it gives no chunk when its (optionally stripped) form
\* is empty and otherwise exactly one chunk, the (optionally stripped) text.
C3_ShortInputAmended ==
    (Returned /\ Len(text) < Self.chunk_size) =>
        /\ Len(chunks) <= 1
        /\ (Self.keep_separator \/ NoEmptyPiece)
              => chunks = (IF Stripped(text) = <<>> THEN <<>> ELSE <<Stripped(text)>>)

C3_Witness ==
    /\ pc = "done"
    /\ InRange
    /\ Len(text) = 2
    /\ Len(text) < Self.chunk_size
    /\ Self.strip_whitespace
    /\ Self.keep_separator
    /\ Stripped(text) # text
    /\ Search(SP, text)
    /\ Self.separators = <<SP, E>>
    /\ chunks = <<Stripped(text)>>

StartIndex(i) == documents[i].metadata["start_index"]

\* C4 as stated: with add_start_index, the start_index values of the chunks
\* of one text never decrease, and each is an offset at which the chunk
\* occurs in the text, never -1.
C4_StartIndexFound ==
    (InRange /\ Self.add_start_index) =>
        /\ \A i \in 1..Len(documents) :
              /\ StartIndex(i) # -1
              /\ OccursAt(text, documents[i].page_content, StartIndex(i) + 1)
        /\ \A i \in 1..(Len(documents) - 1) : StartIndex(i) <= StartIndex(i + 1)

\* chunk i without its leading characters carried over from chunk i - 1
Fresh(i) == SubSeq(chunks[i], carried[i] + 1, Len(chunks[i]))

\* the chunks concatenated in order, the carried-over overlap removed
Reassembled == Join([i \in 1..Len(chunks) |-> Fresh(i)], <<>>)

\* s can be had from t by deleting characters
RECURSIVE IsSubsequence(_, _)
IsSubsequence(s, t) ==
    IF s = <<>> THEN TRUE
    ELSE IF t = <<>> THEN FALSE
    ELSE IF s[1] = t[1] THEN IsSubsequence(Tail(s), Tail(t))
    ELSE IsSubsequence(s, Tail(t))

\* C5 as stated, for keep_separator set (splitting then removes no separator,
\* and there is none to re-insert): the chunks concatenated in order, the
\* overlap removed, are the (optionally stripped) text.
C5_ContentPreserved ==
    (Returned /\ InRange /\ Self.keep_separator) => Reassembled = Stripped(text)

\* C5 as amended: the chunks concatenated in order, the overlap removed, are
\* the text itself when keep_separator is set and strip_whitespace is not;
\* under every configuration they are the text with characters deleted, so
\* no character is invented.
C5_ContentAmended ==
    Returned =>
        /\ Len(carried) = Len(chunks)
        /\ IsSubsequence(Reassembled, text)
        /\ (Self.keep_separator /\ ~Self.strip_whitespace) => Reassembled = text

C5_Witness ==
    /\ pc = "done"
    /\ InRange
    /\ Self.keep_separator
    /\ ~Self.strip_whitespace
    /\ Self.chunk_overlap >= 1
    /\ Len(chunks) >= 3
    /\ \E i \in 1..Len(chunks) : carried[i] >= 1
    /\ Reassembled = text

\* C6 as stated: every chunk of the result that is longer than chunk_size has
\* had its warning logged.
C6_OversizedWarned ==
    (Returned /\ InRange) =>
        Cardinality({i \in 1..Len(chunks) : Len(chunks[i]) > Self.chunk_size})
            <= Len(warnings)

\* the calls of _split_text that split on a separator and keep it
KeepingFrames ==
    {j \in 1..Len(stack) : Self.keep_separator /\ stack[j].separator # <<>>}

EndsWith(s, suffix) == OccursAt(s, suffix, Len(s) - Len(suffix) + 1)

\* C7 as stated: with keep_separator, every fragment but the last ends with
\* the separator.
C7_TrailingAttachment ==
    InRange => \A j \in KeepingFrames : \A i \in 1..(Len(stack[j].splits) - 1) :
        EndsWith(stack[j].splits[i], stack[j].separator)

\* C7 as amended: with keep_separator, every separator occurrence is attached
\* to the start of the fragment that follows it: every fragment but the first
\* begins with the separator, the first begins with it only if the text does,
\* and the fragments concatenated are the text.
C7_LeadingAttachment ==
    \A j \in KeepingFrames :
        /\ \A i \in 2..Len(stack[j].splits) :
              OccursAt(stack[j].splits[i], stack[j].separator, 1)
        /\ Join(stack[j].splits, <<>>) = stack[j].text
        /\ stack[j].splits # <<>> =>
              (OccursAt(stack[j].splits[1], stack[j].separator, 1)
                  <=> OccursAt(stack[j].text, stack[j].separator, 1))

C7_Witness ==
    InRange /\ \E j \in KeepingFrames :
        /\ Len(stack[j].splits) >= 3
        /\ ~OccursAt(stack[j].text, stack[j].separator, 1)

\* C8: every call of _split_text that is made from another gets a strictly
\* shorter separator list than its caller, so there are never more calls in
\* progress than the constructor's list has separators; every iteration of
\* the while loop of _merge_splits that completes takes one fragment off
\* current_doc, and the loop never runs more iterations than the for loop has
\* buffered fragments; every call of create_documents finishes (returns or
\* raises).
C8_Terminates ==
    /\ [][/\ Len(stack') > Len(stack) /\ stack # <<>>
               => Len(stack'[Len(stack')].separators) < Len(Top.separators)
          /\ splitter' # <<>> => Len(stack') <= Len(splitter'[1].separators)
          /\ pc = "while" /\ pc' = "while"
               => /\ Len(mg'.current_doc) = Len(mg.current_doc) - 1
                  /\ mg'.popped <= mg.k - 1]_vars
    /\ <>Finished

C8_Witness ==
    /\ InRange
    /\ Len(stack) = 3
    /\ pc = "while"
    /\ mg.popped >= 2

\* C9 as stated: nothing raises inside split_text, and in _merge_splits total
\* is the length of current_doc joined with the separator, which is 0 exactly
\* when current_doc is empty.
C9_Total ==
    /\ pc # "raised"
    /\ pc \in {"for", "while"} =>
          /\ mg.total = Len(Join(mg.current_doc, mg.separator))
          /\ mg.total = 0 <=> mg.current_doc = <<>>

\* C10: when the while loop that follows a flush ends, it has run at least
\* once, and what it leaves in current_doc, joined with the separator, is no
\* longer than chunk_overlap: nothing at all when chunk_overlap is 0.
C10_EvictionKeepsOverlap ==
    (pc = "while" /\ ~KeepPopping) =>
        /\ mg.popped >= 1
        /\ Len(Join(mg.current_doc, mg.separator)) <= Self.chunk_overlap
        /\ Self.chunk_overlap = 0 => mg.current_doc = <<>>

C10_Witness ==
    /\ InRange
    /\ pc = "while"
    /\ ~KeepPopping
    /\ Self.chunk_overlap < Self.chunk_size
    /\ Len(mg.current_doc) >= 2
    /\ mg.popped >= 1

====
